---- MODULE Spec2Model ----
(***************************************************************************)
(* Control loop of the L-beam stress minimisation driver                   *)
(* (src/projects/stress_min/lbeam.cpp, main).                              *)
(*                                                                         *)
(* The finite element solver, the sensitivity engine, the level-set        *)
(* geometry engine and the velocity optimiser are collaborators: what      *)
(* they hand back to main (objective, areas, boundary points, the          *)
(* advection boolean) is drawn from small sets by the stub.                *)
(*                                                                         *)
(* Doubles are modelled as exact rationals <<n, d>> in lowest terms with   *)
(* d > 0, extended with the IEEE values +inf = <<1, 0>>, -inf = <<-1, 0>>  *)
(* and NaN = <<0, 0>>.  The running time (time, time_step) and the         *)
(* maximum von Mises stress are reported by main but never read by it, so  *)
(* they are not part of the state.                                         *)
(***************************************************************************)
EXTENDS Integers, Sequences, FiniteSets, TLC

(***************************************************************************)
(* Doubles as rationals                                                    *)
(***************************************************************************)
RECURSIVE GCD(_, _)
GCD(a, b) == IF b = 0 THEN a ELSE GCD(b, a % b)

AbsInt(n) == IF n < 0 THEN -n ELSE n

SignInt(n) == IF n < 0 THEN -1 ELSE IF n = 0 THEN 0 ELSE 1

\* The double n / d (IEEE: x/0 is an infinity, 0/0 is NaN).
Rat(n, d) ==
  IF d = 0 THEN <<SignInt(n), 0>>
  ELSE LET g == GCD(AbsInt(n), AbsInt(d))
       IN  <<(SignInt(d) * n) \div g, AbsInt(d) \div g>>

IntR(n) == <<n, 1>>

NaN == <<0, 0>>

IsNaN(a) == a = NaN

MulR(a, b) == Rat(a[1] * b[1], a[2] * b[2])

SubR(a, b) == Rat(a[1] * b[2] - b[1] * a[2], a[2] * b[2])

AbsR(a) == <<AbsInt(a[1]), a[2]>>

\* a < b and a <= b on doubles; every comparison with NaN is false.  Used
\* on finite values and on +inf only.
LtR(a, b) == ~IsNaN(a) /\ ~IsNaN(b) /\ a[1] * b[2] < b[1] * a[2]

LeqR(a, b) == ~IsNaN(a) /\ ~IsNaN(b) /\ a[1] * b[2] <= b[1] * a[2]

\* std::max(a, b) is (a < b) ? b : a
StdMax(a, b) == IF LtR(a, b) THEN b ELSE a

(***************************************************************************)
(* Program constants                                                       *)
(***************************************************************************)
num_elem_x == 100

num_elem_y == 100

max_iter == 500

\* max_area = 0.4
max_area == Rat(2, 5)

\* lsm_mesh.width * lsm_mesh.height - pow(double(lsm_mesh.width)*3/5, 2)
mesh_area ==
  num_elem_x * num_elem_y - ((num_elem_x * 3) \div 5) * ((num_elem_x * 3) \div 5)

\* the 1e-6 of the area-fraction assignment
MinAreaFraction == Rat(1, 1000000)

\* the 0.0005 and the 1.001 of the convergence break
ConvergenceTol == Rat(1, 2000)

AreaSlack == Rat(1001, 1000)

\* the convergence criterion: if (count_iter > 5), for (i = 1; i <= 5; i++)
MinIterations == 5

Window == 5

(***************************************************************************)
(* Bounds of the model and the values the stubbed collaborators return     *)
(***************************************************************************)
\* iterations in which a stub with free outputs varies them; afterwards the
\* outputs settle, so that every such run converges
MaxVary == 6

\* number of analysis elements (fea_mesh.solid_elements.size())
NumElem == 2

\* largest number of boundary points a discretisation returns
MaxPoints == 2

ObjValues == {0, 2000, 2001}

\* boundary.area: 2560 is exactly max_area * mesh_area, 2562 is inside the
\* 1.001 slack, 2563 is outside it
AreaValues == {2560, 2562, 2563}

ElemAreas == {Rat(0, 1), Rat(1, 2000000), Rat(1, 1000000), Rat(1, 2)}

Coords == {<<0, 0>>, <<40, 100>>}

SensValues == {-3, 5}

\* the scripted advection results {false, false, true, false}
Script == <<FALSE, FALSE, TRUE, FALSE>>

\* end-to-end scenario: the objective starts at E2E.start and falls by
\* stub.dec per iteration up to iteration E2E.const_from, then stays; the
\* area is infeasible before iteration stub.settle and max_area after
E2E == [start |-> 20000, const_from |-> 10]

E2EDecrements == {1, 1000}

E2ESettle == {1, 8}

StubsOf(kind) ==
  IF kind = "e2e"
  THEN {[kind |-> "e2e", dec |-> d, settle |-> s] :
          d \in E2EDecrements, s \in E2ESettle}
  ELSE {[kind |-> kind, dec |-> 0, settle |-> 0]}

VARIABLES
  stub,                 \* behaviour of the stubbed collaborators in this run
  pc,                   \* position of main
  count_iter,           \* uint count_iter
  lambdas,              \* vector<double> lambdas(2)
  boundary,             \* LSM::Boundary: points, area, discretise argument
  lsm_elements,         \* lsm_mesh.elements[e].area
  fea_elements,         \* fea_mesh.solid_elements[e].area_fraction
  sens,                 \* FEA::SensitivityAnalysis: objective, field, buffer
  i,                    \* index of the boundary point loop
  constraint_distances, \* vector<double> constraint_distances
  is_reinitialised,     \* bool is_reinitialised
  num_reinit,           \* double num_reinit
  level_set,            \* LSM::LevelSet, as main drives it
  area,                 \* double area
  objective_values,     \* vector<double> objective_values
  relative_difference,  \* double relative_difference
  txt_file,             \* the lines written to history.txt, header excluded
  exit_code             \* value returned by main

vars == <<stub, pc, count_iter, lambdas, boundary, lsm_elements, fea_elements,
          sens, i, constraint_distances, is_reinitialised, num_reinit,
          level_set, area, objective_values, relative_difference, txt_file,
          exit_code>>

Min(a, b) == IF a < b THEN a ELSE b

SeqsUpTo(S, n) == UNION {[1..m -> S] : m \in 0..n}

(***************************************************************************)
(* What the stubbed collaborators return in iteration count_iter           *)
(***************************************************************************)
\* sens.objective after ComputeStressSensitivities
ObjChoices ==
  CASE stub.kind = "objective" ->
         IF count_iter <= MaxVary THEN ObjValues
         ELSE {objective_values[count_iter - 1]}
    [] stub.kind = "oscillate" ->
         {IF count_iter % 2 = 1 THEN 2000 ELSE 1000}
    [] stub.kind = "e2e" ->
         {E2E.start - stub.dec * (Min(count_iter, E2E.const_from) - 1)}
    [] OTHER -> {2000}

\* boundary.area after computeAreaFractions
AreaChoices ==
  CASE stub.kind = "area" ->
         IF count_iter <= MaxVary THEN AreaValues ELSE {2560}
    [] stub.kind = "infeasible" -> {2563}
    [] stub.kind = "e2e" ->
         IF count_iter < stub.settle THEN {3000} ELSE {2560}
    [] OTHER -> {2560}

\* result of level_set.update
UpdateChoices ==
  CASE stub.kind = "advection" -> BOOLEAN
    [] stub.kind = "script" ->
         IF count_iter <= Len(Script) THEN {Script[count_iter]} ELSE {FALSE}
    [] OTHER -> {FALSE}

\* lsm_mesh.elements[.].area after computeAreaFractions
ElemChoices ==
  IF stub.kind = "elements" THEN [1..NumElem -> ElemAreas]
  ELSE {[e \in 1..NumElem |-> Rat(1, 1)]}

\* coordinates of the boundary points after discretise
PointChoices ==
  IF stub.kind = "points" THEN SeqsUpTo(Coords, MaxPoints)
  ELSE {<<CHOOSE c \in Coords : TRUE>>}

\* the sensitivity the engine interpolates at each coordinate
FieldChoices ==
  IF stub.kind = "points" THEN [Coords -> SensValues]
  ELSE {[c \in Coords |-> 5]}

(***************************************************************************)
(* The collaborators, as far as main depends on them                       *)
(***************************************************************************)
\* boundary.discretise(false, n): fresh points, each with n sensitivities
DiscretisedPoints(coords, n) ==
  [p \in 1..Len(coords) |->
     [coord |-> coords[p], sensitivities |-> [s \in 1..n |-> 0]]]

\* sens.ComputeBoundarySensitivities(point, ...): the interpolated value is
\* appended to sens.boundary_sensitivities
ComputeBoundarySensitivities(s, point) ==
  [s EXCEPT !.boundary_sensitivities = Append(@, s.field[point])]

\* level_set.update(time_step) returning b: b tells that the advection
\* re-initialised the signed distance function itself
LevelSetUpdate(ls, b) ==
  [ls EXCEPT !.since_reinit = IF b THEN 0 ELSE @ + 1]

\* level_set.reinitialise()
LevelSetReinitialise(ls) ==
  [ls EXCEPT !.since_reinit = 0, !.reinitialise_calls = @ + 1]

(***************************************************************************)
(* Initial state: main up to the while loop                                *)
(***************************************************************************)
InitOf(kinds) ==
  /\ stub \in UNION {StubsOf(k) : k \in kinds}
  /\ pc = "while"
  /\ count_iter = 0
  /\ lambdas = <<0, 0>>
  /\ boundary = [points |-> <<>>, area |-> 0, n_sensitivities |-> 0]
  /\ lsm_elements = [e \in 1..NumElem |-> Rat(1, 1)]
  /\ fea_elements = [e \in 1..NumElem |-> Rat(1, 1)]
  /\ sens = [objective |-> 0, field |-> [c \in Coords |-> 0],
             boundary_sensitivities |-> <<>>]
  /\ i = 0
  /\ constraint_distances = <<>>
  /\ is_reinitialised = FALSE
  /\ num_reinit = 0
  /\ level_set = LevelSetReinitialise([since_reinit |-> 0,
                                       reinitialise_calls |-> 0])
  /\ area = Rat(0, 1)
  /\ objective_values = <<>>
  /\ relative_difference = Rat(1, 1)
  /\ txt_file = <<>>
  /\ exit_code = "none"

(***************************************************************************)
(* The optimisation loop, one action per stage                             *)
(***************************************************************************)
\* while (count_iter < max_iter)
LoopGuard == count_iter < max_iter

While_NoIncrement ==
  /\ pc = "while"
  /\ pc' = IF LoopGuard THEN "discretise" ELSE "close"
  /\ UNCHANGED <<stub, count_iter, lambdas, boundary, lsm_elements,
                 fea_elements, sens, i, constraint_distances,
                 is_reinitialised, num_reinit, level_set, area,
                 objective_values, relative_difference, txt_file, exit_code>>

\* while (count_iter < max_iter) { count_iter++; ... }  and the loop exit
While ==
  /\ pc = "while"
  /\ IF LoopGuard
     THEN /\ count_iter' = count_iter + 1
          /\ pc' = "discretise"
     ELSE /\ pc' = "close"
          /\ UNCHANGED count_iter
  /\ UNCHANGED <<stub, lambdas, boundary, lsm_elements, fea_elements, sens, i,
                 constraint_distances, is_reinitialised, num_reinit,
                 level_set, area, objective_values, relative_difference,
                 txt_file, exit_code>>

DiscretiseArgument_Constraints == Len(lambdas) - 1

\* the second argument of boundary.discretise: lambdas.size()
DiscretiseArgument == Len(lambdas)

\* boundary.discretise(false, lambdas.size())
Discretise ==
  /\ pc = "discretise"
  /\ \E coords \in PointChoices :
       boundary' = [boundary EXCEPT
                      !.n_sensitivities = DiscretiseArgument,
                      !.points = DiscretisedPoints(coords, DiscretiseArgument)]
  /\ pc' = "area_fractions"
  /\ UNCHANGED <<stub, count_iter, lambdas, lsm_elements, fea_elements, sens,
                 i, constraint_distances, is_reinitialised, num_reinit,
                 level_set, area, objective_values, relative_difference,
                 txt_file, exit_code>>

\* boundary.computeAreaFractions(): element areas and the structural area
ComputeAreaFractions ==
  /\ pc = "area_fractions"
  /\ \E a \in AreaChoices : boundary' = [boundary EXCEPT !.area = a]
  /\ \E f \in ElemChoices : lsm_elements' = f
  /\ pc' = "assign"
  /\ UNCHANGED <<stub, count_iter, lambdas, fea_elements, sens, i,
                 constraint_distances, is_reinitialised, num_reinit,
                 level_set, area, objective_values, relative_difference,
                 txt_file, exit_code>>

AreaFraction_Unclamped(f) == f

\* if (area < 1e-6) area_fraction = 1e-6; else area_fraction = area;
AreaFraction(f) == IF LtR(f, MinAreaFraction) THEN MinAreaFraction ELSE f

\* for (i < fea_mesh.solid_elements.size()) assign the area fraction
AssignAreaFractions ==
  /\ pc = "assign"
  /\ fea_elements' = [e \in 1..NumElem |-> AreaFraction(lsm_elements[e])]
  /\ pc' = "solve"
  /\ UNCHANGED <<stub, count_iter, lambdas, boundary, lsm_elements, sens, i,
                 constraint_distances, is_reinitialised, num_reinit,
                 level_set, area, objective_values, relative_difference,
                 txt_file, exit_code>>

\* AssembleKWithAreaFractions, AssembleF, SolveWithCG and
\* ComputeStressSensitivities: a new objective and new sensitivities
SolveAndComputeSensitivities ==
  /\ pc = "solve"
  /\ \E o \in ObjChoices, f \in FieldChoices :
       sens' = [sens EXCEPT !.objective = o, !.field = f]
  /\ i' = 0
  /\ pc' = "map"
  /\ UNCHANGED <<stub, count_iter, lambdas, boundary, lsm_elements,
                 fea_elements, constraint_distances, is_reinitialised,
                 num_reinit, level_set, area, objective_values,
                 relative_difference, txt_file, exit_code>>

\* sensitivities[0] = -sens.boundary_sensitivities[i]; sensitivities[1] = -1
\* (p is the 0-based index of the code)
PointSensitivities(buffer, p) == <<-buffer[p + 1], -1>>

\* one pass of the loop over boundary.points
MapPoint ==
  /\ pc = "map"
  /\ i < Len(boundary.points)
  /\ LET point == boundary.points[i + 1].coord
         s     == ComputeBoundarySensitivities(sens, point)
     IN  /\ sens' = s
         /\ boundary' = [boundary EXCEPT !.points[i + 1].sensitivities =
                           PointSensitivities(s.boundary_sensitivities, i)]
  /\ i' = i + 1
  /\ UNCHANGED <<stub, pc, count_iter, lambdas, lsm_elements, fea_elements,
                 constraint_distances, is_reinitialised, num_reinit,
                 level_set, area, objective_values, relative_difference,
                 txt_file, exit_code>>

ClearedBuffer_Kept(buffer) == buffer

\* sens.boundary_sensitivities.clear()
ClearedBuffer(buffer) == <<>>

\* end of the loop over boundary.points, and the clear after it
ClearBoundarySensitivities ==
  /\ pc = "map"
  /\ ~(i < Len(boundary.points))
  /\ sens' = [sens EXCEPT !.boundary_sensitivities = ClearedBuffer(@)]
  /\ pc' = "optimise"
  /\ UNCHANGED <<stub, count_iter, lambdas, boundary, lsm_elements,
                 fea_elements, i, constraint_distances, is_reinitialised,
                 num_reinit, level_set, area, objective_values,
                 relative_difference, txt_file, exit_code>>

ConstraintDistances_Accumulated ==
  Append(constraint_distances,
         SubR(MulR(IntR(mesh_area), max_area), IntR(boundary.area)))

\* vector<double> constraint_distances;
\* constraint_distances.push_back(mesh_area * max_area - boundary.area);
ConstraintDistances ==
  Append(<<>>, SubR(MulR(IntR(mesh_area), max_area), IntR(boundary.area)))

\* the constraint distance, the optimiser and get_lambdas
Optimise ==
  /\ pc = "optimise"
  /\ constraint_distances' = ConstraintDistances
  /\ lambdas' = [l \in 1..Len(lambdas) |-> 0]
  /\ pc' = "update"
  /\ UNCHANGED <<stub, count_iter, boundary, lsm_elements, fea_elements, sens,
                 i, is_reinitialised, num_reinit, level_set, area,
                 objective_values, relative_difference, txt_file, exit_code>>

\* computeVelocities, computeGradients and
\* bool is_reinitialised = level_set.update(time_step)
Update ==
  /\ pc = "update"
  /\ \E b \in UpdateChoices :
       /\ is_reinitialised' = b
       /\ level_set' = LevelSetUpdate(level_set, b)
  /\ pc' = "reinitialise"
  /\ UNCHANGED <<stub, count_iter, lambdas, boundary, lsm_elements,
                 fea_elements, sens, i, constraint_distances, num_reinit,
                 area, objective_values, relative_difference, txt_file,
                 exit_code>>

MustReinitialise_AfterTwo == ~is_reinitialised /\ num_reinit = 2

MustReinitialise_WhenReported == is_reinitialised /\ num_reinit = 1

\* if (!is_reinitialised) { if (num_reinit == 1) { ...
MustReinitialise == ~is_reinitialised /\ num_reinit = 1

Reinitialise_NoReset ==
  /\ pc = "reinitialise"
  /\ IF MustReinitialise
     THEN /\ level_set' = LevelSetReinitialise(level_set)
          /\ num_reinit' = num_reinit + 1
     ELSE /\ UNCHANGED level_set
          /\ num_reinit' = (IF is_reinitialised THEN 0 ELSE num_reinit) + 1
  /\ pc' = "converge"
  /\ UNCHANGED <<stub, count_iter, lambdas, boundary, lsm_elements,
                 fea_elements, sens, i, constraint_distances,
                 is_reinitialised, area, objective_values,
                 relative_difference, txt_file, exit_code>>

\* the reinitialisation schedule, with the num_reinit++ that ends it
Reinitialise ==
  /\ pc = "reinitialise"
  /\ IF MustReinitialise
     THEN /\ level_set' = LevelSetReinitialise(level_set)
          /\ num_reinit' = 0 + 1
     ELSE /\ UNCHANGED level_set
          /\ num_reinit' = (IF is_reinitialised THEN 0 ELSE num_reinit) + 1
  /\ pc' = "converge"
  /\ UNCHANGED <<stub, count_iter, lambdas, boundary, lsm_elements,
                 fea_elements, sens, i, constraint_distances,
                 is_reinitialised, area, objective_values,
                 relative_difference, txt_file, exit_code>>

\* the loop  for (i = 1; i <= 5; i++)  over the history: acc is
\* relative_difference, k the iteration, w the value of i
RECURSIVE WindowMax(_, _, _, _)
WindowMax(values, k, w, acc) ==
  IF w > Window THEN acc
  ELSE LET objective_value_k == values[k]
           objective_value_m == values[k - w]
       IN  WindowMax(values, k, w + 1,
             StdMax(acc, AbsR(Rat(objective_value_k - objective_value_m,
                                  objective_value_k))))

RelativeDifference_CarriedOver(values, k, prev) ==
  IF k > MinIterations THEN WindowMax(values, k, 1, prev) ELSE prev

RelativeDifference_ResetFirst(values, k, prev) ==
  IF k > MinIterations THEN WindowMax(values, k, 1, Rat(0, 1)) ELSE Rat(0, 1)

RelativeDifference_LastStep(values, k, prev) ==
  IF k > 1
  THEN StdMax(Rat(0, 1), AbsR(Rat(values[k] - values[k - 1], values[k])))
  ELSE prev

\* if (count_iter > 5) { relative_difference = 0.0; for ... }
\* values is objective_values after the push_back, prev the value held
RelativeDifference(values, k, prev) ==
  IF k > MinIterations THEN WindowMax(values, k, 1, Rat(0, 1)) ELSE prev

PushedHistory_LatestOnly(values, o) ==
  IF values = <<>> THEN <<o>> ELSE [values EXCEPT ![Len(values)] = o]

\* objective_values.push_back(sens.objective)
PushedHistory(values, o) == Append(values, o)

\* area, objective_values.push_back(sens.objective), convergence criterion
Converge ==
  /\ pc = "converge"
  /\ area' = Rat(boundary.area, mesh_area)
  /\ objective_values' = PushedHistory(objective_values, sens.objective)
  /\ relative_difference' =
       RelativeDifference(objective_values', count_iter, relative_difference)
  /\ pc' = "record"
  /\ UNCHANGED <<stub, count_iter, lambdas, boundary, lsm_elements,
                 fea_elements, sens, i, constraint_distances,
                 is_reinitialised, num_reinit, level_set, txt_file,
                 exit_code>>

HistoryLine_ZeroBased ==
  [iteration |-> count_iter - 1, stress |-> sens.objective, area |-> area,
   change |-> relative_difference]

\* count_iter, sens.objective, (sens.von_mises_max,) area,
\* relative_difference
HistoryLine ==
  [iteration |-> count_iter, stress |-> sens.objective, area |-> area,
   change |-> relative_difference]

\* the printf, txt_file << ... and the three snapshot files
Record ==
  /\ pc = "record"
  /\ txt_file' = Append(txt_file, HistoryLine)
  /\ pc' = "break"
  /\ UNCHANGED <<stub, count_iter, lambdas, boundary, lsm_elements,
                 fea_elements, sens, i, constraint_distances,
                 is_reinitialised, num_reinit, level_set, area,
                 objective_values, relative_difference, exit_code>>

BreakCondition_Either(rd, a) ==
  LeqR(rd, ConvergenceTol) \/ LeqR(a, MulR(AreaSlack, max_area))

\* (relative_difference <= 0.0005) & (area <= 1.001 * max_area)
BreakCondition(rd, a) ==
  LeqR(rd, ConvergenceTol) /\ LeqR(a, MulR(AreaSlack, max_area))

\* if (...) break;
Break ==
  /\ pc = "break"
  /\ pc' = IF BreakCondition(relative_difference, area)
           THEN "close" ELSE "while"
  /\ UNCHANGED <<stub, count_iter, lambdas, boundary, lsm_elements,
                 fea_elements, sens, i, constraint_distances,
                 is_reinitialised, num_reinit, level_set, area,
                 objective_values, relative_difference, txt_file, exit_code>>

\* txt_file.close(); ... return 0;
Close ==
  /\ pc = "close"
  /\ exit_code' = 0
  /\ pc' = "done"
  /\ UNCHANGED <<stub, count_iter, lambdas, boundary, lsm_elements,
                 fea_elements, sens, i, constraint_distances,
                 is_reinitialised, num_reinit, level_set, area,
                 objective_values, relative_difference, txt_file>>

Next ==
  \/ While
  \/ Discretise
  \/ ComputeAreaFractions
  \/ AssignAreaFractions
  \/ SolveAndComputeSensitivities
  \/ MapPoint
  \/ ClearBoundarySensitivities
  \/ Optimise
  \/ Update
  \/ Reinitialise
  \/ Converge
  \/ Record
  \/ Break
  \/ Close

(***************************************************************************)
(* Specifications: the same program under different stubs                  *)
(***************************************************************************)
FreeKinds ==
  {"objective", "area", "advection", "elements", "points", "oscillate",
   "infeasible"}

Init == InitOf(FreeKinds)

Spec == Init /\ [][Next]_vars

\* runs that go on to the ceiling, next to runs that converge
InitCeiling == InitOf({"oscillate", "infeasible", "advection", "points"})

SpecCeiling == InitCeiling /\ [][Next]_vars

InitScript == InitOf({"script", "advection"})

SpecScript == InitScript /\ [][Next]_vars

InitE2E == InitOf({"e2e"})

SpecE2E == InitE2E /\ [][Next]_vars

(***************************************************************************)
(* Properties                                                              *)
(***************************************************************************)
\* a history line that meets the condition of the break
ConvergedAndFeasible(r) ==
  /\ LeqR(r.change, Rat(5, 10000))
  /\ LeqR(r.area, Rat(1001 * 4, 1000 * 10))

\* C1: the loop stops at the first iteration whose relative difference is
\* at most 5e-4 while its area fraction is at most 1.001 * max_area, or at
\* the ceiling: an iteration that met the condition is the last one, the
\* loop is left only on the condition or at max_iter iterations, and
\* count_iter never exceeds max_iter.
C1_StopsAtFirstConvergedFeasible ==
  /\ count_iter <= max_iter
  /\ \A j \in 1..Len(txt_file) :
       ConvergedAndFeasible(txt_file[j]) =>
         j = count_iter /\ pc \in {"break", "close", "done"}
  /\ pc \in {"close", "done"} =>
       \/ count_iter = max_iter
       \/ /\ Len(txt_file) = count_iter
          /\ ConvergedAndFeasible(txt_file[count_iter])

\* the run ended below the ceiling after an iteration that was converged
\* but not feasible
C1_Witness ==
  /\ pc = "done"
  /\ count_iter < max_iter
  /\ \E j \in 1..(count_iter - 1) :
       /\ LeqR(txt_file[j].change, Rat(5, 10000))
       /\ ~ConvergedAndFeasible(txt_file[j])

\* C2 as stated: in the iterations k <= 5 the relative difference held by
\* the loop and written to the history is exactly 0.
C2_UnsetMetricIsZero ==
  /\ count_iter \in 1..5 => relative_difference = Rat(0, 1)
  /\ \A j \in 1..Len(txt_file) : j <= 5 => txt_file[j].change = Rat(0, 1)

\* C2: in the iterations k <= 5 the relative difference held by the loop
\* and written to the history is exactly 1, the value it is initialised
\* with.
C2_UnsetMetricIsOne ==
  /\ count_iter \in 0..5 => relative_difference = Rat(1, 1)
  /\ \A j \in 1..Len(txt_file) : j <= 5 => txt_file[j].change = Rat(1, 1)

\* five lines with differing objectives are in the history
C2_Witness ==
  /\ count_iter = 5
  /\ pc = "break"
  /\ Len(txt_file) = 5
  /\ objective_values[5] # objective_values[4]

\* |(obj_k - obj_m) / obj_k| for the five iterations m before k
WindowTerms(k) ==
  {AbsR(Rat(objective_values[k] - objective_values[m], objective_values[k])) :
     m \in (k - 5)..(k - 1)}

\* x is the maximum of 0 and the terms that are numbers (a term 0/0 is not)
IsWindowMax(x, k) ==
  LET terms == (WindowTerms(k) \cup {Rat(0, 1)}) \ {NaN}
  IN  x \in terms /\ \A t \in terms : LeqR(t, x)

\* C3: in every iteration k > 5 the relative difference is the maximum of
\* |(obj_k - obj_m) / obj_k| over the five iterations m before k, whatever
\* it was before; so is the value in the k-th history line.
C3_MetricIsWindowMaximum ==
  /\ (count_iter > 5 /\ Len(objective_values) = count_iter) =>
       IsWindowMax(relative_difference, count_iter)
  /\ \A j \in 1..Len(txt_file) : j > 5 => IsWindowMax(txt_file[j].change, j)

\* iteration 7 computed a metric that is not zero and is below the one of
\* iteration 6
C3_Witness ==
  /\ count_iter = 7
  /\ pc = "break"
  /\ LtR(Rat(0, 1), relative_difference)
  /\ LtR(relative_difference, txt_file[6].change)

\* the scheduler has run in the current iteration
AfterSchedule == pc \in {"converge", "record", "break"}

\* number of explicit reinitialisations the scripted run has made when the
\* scheduler of iteration k has run, the one of the set-up included
ScriptedCalls(k) == CASE k = 1 -> 1 [] k = 2 -> 2 [] k = 3 -> 2 [] k = 4 -> 3

\* C4: level_set.reinitialise() is called in an iteration exactly when the
\* advection reported false and the counter is 1 at the scheduler, and by
\* no other stage; for the advection results {false, false, true, false}
\* it is called in iterations 2 and 4 and not in iterations 1 and 3.
C4_ExplicitReinitialisation ==
  /\ [][/\ level_set'.reinitialise_calls \in
             {level_set.reinitialise_calls, level_set.reinitialise_calls + 1}
        /\ level_set'.reinitialise_calls # level_set.reinitialise_calls <=>
             (pc = "reinitialise" /\ ~is_reinitialised /\ num_reinit = 1)]_vars
  /\ [](stub.kind = "script" /\ AfterSchedule /\ count_iter \in 1..4 =>
          level_set.reinitialise_calls = ScriptedCalls(count_iter))

\* the scripted run has made its second explicit call in iteration 4
C4_Witness ==
  /\ stub.kind = "script"
  /\ pc = "converge"
  /\ count_iter = 4
  /\ ~is_reinitialised
  /\ level_set.reinitialise_calls = 3

\* C5: when the stiffness matrix is assembled every element has the area
\* fraction max(f, 1e-6), f being the area the level set gave it in this
\* iteration: never below 1e-6, and f itself when f >= 1e-6.
C5_AreaFractionClamped ==
  pc = "solve" =>
    \A e \in 1..NumElem :
      /\ LeqR(Rat(1, 1000000), fea_elements[e])
      /\ LeqR(Rat(1, 1000000), lsm_elements[e]) =>
           fea_elements[e] = lsm_elements[e]
      /\ LtR(lsm_elements[e], Rat(1, 1000000)) =>
           fea_elements[e] = Rat(1, 1000000)

\* one element was raised to 1e-6 and another was passed through
C5_Witness ==
  /\ pc = "solve"
  /\ \E e1, e2 \in 1..NumElem :
       /\ lsm_elements[e1] = Rat(1, 2000000)
       /\ fea_elements[e1] = Rat(1, 1000000)
       /\ lsm_elements[e2] = Rat(1, 2)
       /\ fea_elements[e2] = Rat(1, 2)

\* C6: from the optimiser set-up to the end of the iteration the constraint
\* distances are the single value max_area * mesh_area - boundary.area,
\* with the boundary.area of this iteration.
C6_ConstraintDistanceFresh ==
  pc \in {"update", "reinitialise", "converge", "record", "break"} =>
    /\ Len(constraint_distances) = 1
    /\ constraint_distances[1] = Rat(2 * mesh_area - 5 * boundary.area, 5)

\* a later iteration whose area differs from that of the iteration before
\* and violates the constraint
C6_Witness ==
  /\ pc = "update"
  /\ count_iter >= 2
  /\ txt_file[count_iter - 1].area # Rat(boundary.area, mesh_area)
  /\ constraint_distances = <<Rat(-3, 1)>>

\* the history holds one line per iteration, numbered from 1
HistoryComplete ==
  /\ Len(txt_file) = count_iter
  /\ \A j \in 1..Len(txt_file) : txt_file[j].iteration = j

\* C7 as stated: with an objective that falls strictly up to iteration 10
\* and is constant from then on, and an area that is max_area from
\* iteration 8 at the latest, the run ends at an iteration T >= 15 and the
\* history holds the lines 1..T.
C7_EndsAtFifteenOrLater ==
  pc = "done" => (count_iter >= 15 /\ HistoryComplete)

\* every step of the falling objective exceeds the tolerance
FallsFast ==
  \A j \in 1..(Len(objective_values) - 1) :
    objective_values[j + 1] < objective_values[j] =>
      LtR(Rat(5, 10000),
          Rat(objective_values[j] - objective_values[j + 1],
              objective_values[j + 1]))

\* C7: in that scenario the run ends at an iteration T with 6 <= T <= 15,
\* at T = 15 when every fall of the objective exceeds 5e-4 of it, and the
\* history holds the lines 1..T.
C7_EndsByFifteen ==
  pc = "done" =>
    /\ 6 <= count_iter
    /\ count_iter <= 15
    /\ FallsFast => count_iter = 15
    /\ HistoryComplete

\* a run of the scenario that ended at iteration 15
C7_Witness ==
  /\ stub.kind = "e2e"
  /\ pc = "done"
  /\ count_iter = 15
  /\ Len(txt_file) = 15
  /\ objective_values[10] < objective_values[9]
  /\ objective_values[15] = objective_values[10]

\* stages of one iteration that are still to run, the passes of the loop
\* over the boundary points included
StagesLeft ==
  CASE pc = "while" -> 0
    [] pc = "discretise" -> 11 + MaxPoints
    [] pc = "area_fractions" -> 10 + MaxPoints
    [] pc = "assign" -> 9 + MaxPoints
    [] pc = "solve" -> 8 + MaxPoints
    [] pc = "map" -> 7 + MaxPoints - i
    [] pc = "optimise" -> 6
    [] pc = "update" -> 5
    [] pc = "reinitialise" -> 4
    [] pc = "converge" -> 3
    [] pc = "record" -> 2
    [] pc = "break" -> 1

\* an upper bound of the number of steps main still takes
StepsLeft ==
  CASE pc = "done" -> 0
    [] pc = "close" -> 1
    [] OTHER -> 2 + (max_iter - count_iter) * (12 + MaxPoints) + StagesLeft

\* main has returned, after the break or at the ceiling, with 0
Terminated ==
  /\ pc = "done"
  /\ exit_code = 0
  /\ count_iter <= max_iter
  /\ \/ count_iter = max_iter
     \/ ConvergedAndFeasible(txt_file[count_iter])

\* C8: every run reaches the end of main, whatever the collaborators
\* return: every step lowers the bound StepsLeft of the steps still to
\* take, which is 0 only when main has returned, and wherever main has not
\* returned a next step exists.  Main returns after at most max_iter
\* iterations, through the break condition or at the ceiling, with 0 in
\* either case, and nothing runs after it.
C8_Terminates ==
  [][/\ StepsLeft' < StepsLeft
     /\ StepsLeft' >= 0
     /\ pc # "done" /\ exit_code = "none"
     /\ IF pc' = "done" THEN Terminated'
        ELSE exit_code' = "none" /\ (ENABLED Next)']_vars

\* a run that ended at the ceiling without meeting the break condition
C8_Witness ==
  /\ pc = "done"
  /\ exit_code = 0
  /\ count_iter = max_iter
  /\ Len(txt_file) = max_iter
  /\ ~ConvergedAndFeasible(txt_file[max_iter])

\* C9: while the points are mapped the buffer holds one value per point
\* processed, the value interpolated at that point in this iteration; after
\* the mapping every point has the sensitivities <<-v, -1>>, v being the
\* value interpolated at its own coordinate in this iteration, and the
\* buffer is empty.
C9_SensitivitiesAligned ==
  /\ pc = "map" =>
       /\ Len(sens.boundary_sensitivities) = i
       /\ \A p \in 1..i :
            /\ sens.boundary_sensitivities[p] =
                 sens.field[boundary.points[p].coord]
            /\ boundary.points[p].sensitivities =
                 <<0 - sens.field[boundary.points[p].coord], 0 - 1>>
  /\ pc = "optimise" =>
       /\ sens.boundary_sensitivities = <<>>
       /\ \A p \in 1..Len(boundary.points) :
            boundary.points[p].sensitivities =
              <<0 - sens.field[boundary.points[p].coord], 0 - 1>>

\* a later iteration mapped two points with different sensitivities
C9_Witness ==
  /\ pc = "optimise"
  /\ count_iter >= 2
  /\ Len(boundary.points) = 2
  /\ boundary.points[1].sensitivities[1] # boundary.points[2].sensitivities[1]

\* C10: there are never two consecutive iterations without a
\* reinitialisation: once the scheduler has run, at most one advection step
\* has passed since the signed distance function was last reinitialised, by
\* the advection or by the scheduler.
C10_ReinitialisedEverySecondIteration ==
  pc # "reinitialise" => level_set.since_reinit <= 1

\* an iteration without any reinitialisation was followed by one in which
\* the scheduler reinitialised
C10_Witness ==
  /\ pc = "converge"
  /\ stub.kind = "advection"
  /\ count_iter = 3
  /\ ~is_reinitialised
  /\ level_set.since_reinit = 0
  /\ level_set.reinitialise_calls = 2

\* C11: the break is not taken in the iterations k <= 5, whatever the
\* objective and the area are: main leaves the loop at iteration 6 at the
\* earliest, and up to the break of iteration 5 every step of the break
\* goes back to the loop guard.
C11_NoBreakBeforeSixthIteration ==
  /\ pc \in {"close", "done"} => count_iter >= 6
  /\ (pc = "break" /\ count_iter <= 5) =>
       ~LeqR(relative_difference, Rat(5, 10000))

\* a run that left the loop at iteration 6 although its objective was flat
\* and its area feasible from the first iteration on
C11_Witness ==
  /\ pc = "close"
  /\ count_iter = 6
  /\ \A j \in 1..6 :
       /\ txt_file[j].stress = txt_file[1].stress
       /\ LeqR(txt_file[j].area, Rat(1001 * 4, 1000 * 10))

\* the history holds one objective per iteration that has reached its
\* convergence check, the one written to the history line of that iteration
HistoryOfObjectives ==
  /\ Len(objective_values) =
       IF pc \in {"record", "break", "while", "close", "done"}
       THEN count_iter ELSE count_iter - 1
  /\ \A j \in 1..Len(txt_file) : objective_values[j] = txt_file[j].stress

\* C12: the objective history is append-only with one entry per iteration:
\* no step changes or removes an entry, a step adds at most one, the
\* convergence check of iteration k leaves exactly k entries, entry j being
\* the objective of iteration j, and for k > 5 the window entries k-1 down
\* to k-5 that it reads exist.
C12_HistoryAppendOnly ==
  [][/\ HistoryOfObjectives
     /\ HistoryOfObjectives'
     /\ Len(objective_values') \in
          {Len(objective_values), Len(objective_values) + 1}
     /\ \A j \in 1..Len(objective_values) :
          objective_values'[j] = objective_values[j]
     /\ pc = "converge" =>
          /\ Len(objective_values') = count_iter
          /\ objective_values'[count_iter] = sens.objective
          /\ count_iter > 5 =>
               \A w \in 1..5 :
                 (count_iter - w) \in 1..(Len(objective_values') - 1)]_vars

\* seven iterations have been recorded and the first entry still holds an
\* objective that differs from the latest one
C12_Witness ==
  /\ pc = "record"
  /\ count_iter = 7
  /\ Len(objective_values) = 7
  /\ objective_values[1] # objective_values[7]
  /\ objective_values[1] = txt_file[1].stress

\* C13 as stated: in every iteration the boundary is discretised with the
\* number of active constraints, which is exactly one.
C13_DiscretisedForOneConstraint ==
  pc = "area_fractions" => boundary.n_sensitivities = 1

\* C13: in every iteration the boundary is discretised with
\* lambdas.size(), which is 2 in the first iteration (one entry for the
\* objective and one for the area constraint), and every point it returns
\* holds that many sensitivities.
C13_DiscretisedForLambdas ==
  pc = "area_fractions" =>
    /\ boundary.n_sensitivities = Len(lambdas)
    /\ count_iter = 1 => boundary.n_sensitivities = 2
    /\ \A p \in 1..Len(boundary.points) :
         Len(boundary.points[p].sensitivities) = boundary.n_sensitivities

\* a later iteration has discretised the boundary into two fresh points
C13_Witness ==
  /\ pc = "area_fractions"
  /\ count_iter >= 2
  /\ Len(boundary.points) = 2
  /\ boundary.n_sensitivities = 2
  /\ \A p \in 1..2 : boundary.points[p].sensitivities = <<0, 0>>

\* the scheduler of the first iteration has not run yet
BeforeFirstSchedule ==
  \/ count_iter = 0
  \/ /\ count_iter = 1
     /\ pc \in {"discretise", "area_fractions", "assign", "solve", "map",
                "optimise", "update", "reinitialise"}

\* C14: num_reinit is 0 until the scheduler of the first iteration has run
\* and 1 from then on, whatever the advection reports; the scheduler of
\* iteration 1 makes no explicit call, and from iteration 2 on every
\* iteration in which the advection reported false has made the explicit
\* call once its scheduler has run, so that each of these iterations
\* contains a reinitialisation.
C14_CounterIsOneAfterFirstIteration ==
  /\ num_reinit \in {0, 1}
  /\ num_reinit = 0 <=> BeforeFirstSchedule
  /\ count_iter <= 1 => level_set.reinitialise_calls = 1
  /\ (AfterSchedule /\ count_iter >= 2) =>
       /\ level_set.since_reinit = 0
       /\ ~is_reinitialised => level_set.reinitialise_calls >= 2

\* the third explicit call of a run, made in iteration 4 after an iteration
\* in which the advection had reinitialised
C14_Witness ==
  /\ stub.kind = "advection"
  /\ pc = "record"
  /\ count_iter = 4
  /\ num_reinit = 1
  /\ ~is_reinitialised
  /\ level_set.reinitialise_calls = 3

====
